---- MODULE Spec2Model ----
(***************************************************************************)
(* Model of the MSP toolkit health-check subsystem                         *)
(* (msp_toolkit.core.health_monitor.HealthMonitor over the SQLite-backed   *)
(* storage of msp_toolkit.storage).                                        *)
(*                                                                         *)
(* A run_checks call is a process that validates its input, executes its   *)
(* checks one at a time, adds the results to a session and commits them in *)
(* one transaction.  get_history / get_status_summary are single queries   *)
(* against the committed table.                                            *)
(***************************************************************************)
EXTENDS Integers, Sequences, FiniteSets, TLC

\* ---------------------------------------------------------------- bounds
MaxTime == 3         \* the clock runs over 0..MaxTime
DayTicks == 2        \* clock ticks per day (timedelta(days=1))
MaxCalls == 2        \* run_checks calls made in one behaviour
MaxKinds == 2        \* length of an explicit check_types list
MaxDevices == 2      \* rows of the devices table

\* ------------------------------------------------------- program constants
DefaultCpu == 85
DefaultMemory == 90
DefaultDisk == 85
SummaryDays == 1

\* ------------------------------------------------------------- optionals
None == << >>
Some(v) == << v >>

Max(S) == CHOOSE x \in S : \A y \in S : x >= y
Min(S) == CHOOSE x \in S : \A y \in S : x <= y

\* ------------------------------------------------- enums (core/models.py)
\* HealthCheckType: member name -> value
HealthCheckType ==
  [CPU |-> "cpu", MEMORY |-> "memory", DISK |-> "disk",
   SERVICES |-> "services", NETWORK |-> "network", CUSTOM |-> "custom"]
TypeNames == DOMAIN HealthCheckType
TypeValues == {HealthCheckType[n] : n \in TypeNames}
\* HealthCheckType(value): the member with that value (ValueError if none)
TypeFromValue(s) == CHOOSE n \in TypeNames : HealthCheckType[n] = s

\* HealthCheckStatus: member name -> value
HealthCheckStatus ==
  [HEALTHY |-> "healthy", WARNING |-> "warning",
   CRITICAL |-> "critical", UNKNOWN |-> "unknown"]
StatusNames == DOMAIN HealthCheckStatus
StatusFromValue(s) == CHOOSE n \in StatusNames : HealthCheckStatus[n] = s

\* ------------------------------------------------------------ exceptions
NoError == [type |-> "", field |-> "", detail |-> ""]
\* ValidationError(field, message): detail keeps what the message names
ValidationError(f, d) == [type |-> "ValidationError", field |-> f, detail |-> d]
\* an exception raised by the storage layer (sqlalchemy) and re-raised
StorageError == [type |-> "StorageError", field |-> "", detail |-> ""]
\* an exception raised by psutil or by the device query
SourceError(k) == [type |-> "SourceError", field |-> k, detail |-> ""]

\* ------------------------------------------- threshold configuration
\* A raw configured value: absent, a number, a string or null.
Unset == [tag |-> "unset", num |-> 0, str |-> << >>]
Num(n) == [tag |-> "num", num |-> n, str |-> << >>]
Str(s) == [tag |-> "str", num |-> 0, str |-> s]
Null == [tag |-> "null", num |-> 0, str |-> << >>]

Digits == [c \in {"0", "1", "2", "3", "4", "5", "6", "7", "8", "9"} |->
             CASE c = "0" -> 0 [] c = "1" -> 1 [] c = "2" -> 2 [] c = "3" -> 3
               [] c = "4" -> 4 [] c = "5" -> 5 [] c = "6" -> 6 [] c = "7" -> 7
               [] c = "8" -> 8 [] c = "9" -> 9]

RECURSIVE DigitsValue(_)
DigitsValue(s) ==
  IF s = << >> THEN 0
  ELSE 10 * DigitsValue(SubSeq(s, 1, Len(s) - 1)) + Digits[s[Len(s)]]

\* float(raw_value): a number is itself, a string of digits parses, any other
\* string is a ValueError and None a TypeError.
Float(raw) ==
  CASE raw.tag = "num" -> [ok |-> TRUE, val |-> raw.num]
    [] raw.tag = "str" /\ raw.str # << >>
         /\ \A i \in 1..Len(raw.str) : raw.str[i] \in DOMAIN Digits
       -> [ok |-> TRUE, val |-> DigitsValue(raw.str)]
    [] OTHER -> [ok |-> FALSE, val |-> 0]

ThresholdKeys == {"cpu_percent", "memory_percent", "disk_percent"}

\* (mutant) a value that does not coerce falls back to the default
_get_threshold_fallback(thresholds, key, default) ==
  LET f == Float(thresholds[key])
  IN  [ok |-> TRUE, err |-> NoError,
       val |-> IF thresholds[key].tag # "unset" /\ f.ok THEN f.val ELSE default]

\* HealthMonitor._get_threshold
_get_threshold(thresholds, key, default) ==
  LET raw_value == IF thresholds[key].tag = "unset" THEN Num(default)
                   ELSE thresholds[key]
      f == Float(raw_value)
  IN  IF f.ok THEN [ok |-> TRUE, val |-> f.val, err |-> NoError]
      ELSE [ok |-> FALSE, val |-> 0,
            err |-> ValidationError("health_checks.thresholds." \o key, key)]

\* (mutant) memory_percent and disk_percent fall back to their defaults
CoerceThresholdsCpuOnly(thresholds) ==
  LET c == _get_threshold(thresholds, "cpu_percent", DefaultCpu)
      m == _get_threshold(thresholds, "memory_percent", DefaultMemory)
      d == _get_threshold(thresholds, "disk_percent", DefaultDisk)
  IN  IF ~c.ok THEN [ok |-> FALSE, err |-> c.err, cpu |-> 0, memory |-> 0, disk |-> 0]
      ELSE [ok |-> TRUE, err |-> NoError, cpu |-> c.val,
            memory |-> IF m.ok THEN m.val ELSE DefaultMemory,
            disk |-> IF d.ok THEN d.val ELSE DefaultDisk]

\* The three coercions at the head of _execute_check, in their order; the
\* first that fails raises.
CoerceThresholds(thresholds) ==
  LET c == _get_threshold(thresholds, "cpu_percent", DefaultCpu)
      m == _get_threshold(thresholds, "memory_percent", DefaultMemory)
      d == _get_threshold(thresholds, "disk_percent", DefaultDisk)
  IN  IF ~c.ok THEN [ok |-> FALSE, err |-> c.err, cpu |-> 0, memory |-> 0, disk |-> 0]
      ELSE IF ~m.ok THEN [ok |-> FALSE, err |-> m.err, cpu |-> 0, memory |-> 0, disk |-> 0]
      ELSE IF ~d.ok THEN [ok |-> FALSE, err |-> d.err, cpu |-> 0, memory |-> 0, disk |-> 0]
      ELSE [ok |-> TRUE, err |-> NoError, cpu |-> c.val, memory |-> m.val, disk |-> d.val]

\* ------------------------------------------------------------ CheckResult
\* tzinfo of a timestamp: datetime.now(timezone.utc) carries UTC; a DateTime
\* column of SQLite is a string without offset and reads back without tzinfo
Utc == Some("UTC")
Naive == None

NoData == [has_devices |-> FALSE, devices |-> << >>]
UsageMessage(label, v) == [fmt |-> "usage", label |-> label, arg |-> v]
DevicesMessage(n) == [fmt |-> "devices", label |-> "", arg |-> n]
PassedMessage(k) == [fmt |-> "passed", label |-> HealthCheckType[k], arg |-> 0]

\* (mutant) <= in place of <
ClassifyInclusive(usage, threshold) ==
  IF usage <= threshold THEN "HEALTHY" ELSE "WARNING"

\* (mutant) a usage at or above the threshold is critical
ClassifyCritical(usage, threshold) ==
  IF usage < threshold THEN "HEALTHY" ELSE "CRITICAL"

\* status = HEALTHY if usage < threshold else WARNING
Classify(usage, threshold) ==
  IF usage < threshold THEN "HEALTHY" ELSE "WARNING"

\* (mutant) the result of a threshold check leaves the threshold out
ThresholdResultBare(k, label, usage, threshold, t) ==
  [check_type |-> k, status |-> Classify(usage, threshold),
   message |-> UsageMessage(label, usage),
   value |-> Some(usage), threshold |-> None,
   timestamp |-> t, tzinfo |-> Utc, data |-> NoData]

\* CheckResult(...) of the cpu, memory and disk branches
ThresholdResult(k, label, usage, threshold, t) ==
  [check_type |-> k, status |-> Classify(usage, threshold),
   message |-> UsageMessage(label, usage),
   value |-> Some(usage), threshold |-> Some(threshold),
   timestamp |-> t, tzinfo |-> Utc, data |-> NoData]

ServicesStatus(devs) == IF devs # << >> THEN "HEALTHY" ELSE "WARNING"

ServicesResult(devs, t) ==
  [check_type |-> "SERVICES", status |-> ServicesStatus(devs),
   message |-> DevicesMessage(Len(devs)),
   value |-> None, threshold |-> None,
   timestamp |-> t, tzinfo |-> Utc, data |-> [has_devices |-> TRUE, devices |-> devs]]

PassedResult(k, t) ==
  [check_type |-> k, status |-> "HEALTHY", message |-> PassedMessage(k),
   value |-> None, threshold |-> None, timestamp |-> t, tzinfo |-> Utc,
   data |-> NoData]

\* --------------------------------------------------- check_types input
\* An element of the check_types argument: a HealthCheckType member
\* (s is its name) or a plain string.
Member(n) == [isEnum |-> TRUE, s |-> n]
Text(s) == [isEnum |-> FALSE, s |-> s]
\* check_types=None / an explicit list
Omitted == [none |-> TRUE, items |-> << >>]
Given(items) == [none |-> FALSE, items |-> items]

\* (mutant) every member of HealthCheckType, custom included
DefaultCheckTypesAll == << "CPU", "MEMORY", "DISK", "SERVICES", "NETWORK", "CUSTOM" >>

\* The list _normalize_check_types returns for check_types=None
DefaultCheckTypes == << "CPU", "MEMORY", "DISK", "SERVICES", "NETWORK" >>

\* (mutant) an unrecognized string is skipped instead of raising
_normalize_check_types_skip(check_types) ==
  IF check_types.none
  THEN [ok |-> TRUE, list |-> DefaultCheckTypes, err |-> NoError]
  ELSE LET items == check_types.items
           good == SelectSeq(items, LAMBDA x : x.isEnum \/ x.s \in TypeValues)
       IN  [ok |-> TRUE,
            list |-> [i \in 1..Len(good) |->
                        IF good[i].isEnum THEN good[i].s ELSE TypeFromValue(good[i].s)],
            err |-> NoError]

\* (mutant) a kind already in the list is dropped
_normalize_check_types_dedupe(check_types) ==
  IF check_types.none
  THEN [ok |-> TRUE, list |-> DefaultCheckTypes, err |-> NoError]
  ELSE LET items == check_types.items
           bad == {i \in 1..Len(items) :
                     ~items[i].isEnum /\ items[i].s \notin TypeValues}
           name(i) == IF items[i].isEnum THEN items[i].s ELSE TypeFromValue(items[i].s)
           first == {i \in 1..Len(items) : \A j \in 1..(i - 1) : name(j) # name(i)}
           RECURSIVE Pick(_)
           Pick(i) == IF i > Len(items) THEN << >>
                      ELSE (IF i \in first THEN << name(i) >> ELSE << >>) \o Pick(i + 1)
       IN  IF bad = {}
           THEN [ok |-> TRUE, list |-> Pick(1), err |-> NoError]
           ELSE [ok |-> FALSE, list |-> << >>,
                 err |-> ValidationError("check_types", items[Min(bad)].s)]

\* HealthMonitor._normalize_check_types
_normalize_check_types(check_types) ==
  IF check_types.none
  THEN [ok |-> TRUE, list |-> DefaultCheckTypes, err |-> NoError]
  ELSE LET items == check_types.items
           bad == {i \in 1..Len(items) :
                     ~items[i].isEnum /\ items[i].s \notin TypeValues}
       IN  IF bad = {}
           THEN [ok |-> TRUE,
                 list |-> [i \in 1..Len(items) |->
                             IF items[i].isEnum THEN items[i].s
                             ELSE TypeFromValue(items[i].s)],
                 err |-> NoError]
           ELSE [ok |-> FALSE, list |-> << >>,
                 err |-> ValidationError("check_types", items[Min(bad)].s)]

\* ------------------------------------------------------------ the store
\* HealthCheckRecord(...) as built by _persist_results; id is 0 until the
\* INSERT assigns it.  batch is a history field (which call produced the row); it
\* is not a column and nothing in the program reads it.
HealthCheckRecord(client_id, result, b) ==
  [id |-> 0,
   client_id |-> client_id,
   check_type |-> HealthCheckType[result.check_type],
   status |-> HealthCheckStatus[result.status],
   message |-> result.message,
   value |-> result.value,
   threshold |-> result.threshold,
   timestamp |-> result.timestamp,
   batch |-> b]

\* The CheckResult get_history builds from a row (data is not a column and
\* takes its default; the timestamp is the column's value, without tzinfo).
ToCheckResult(record) ==
  [check_type |-> TypeFromValue(record.check_type),
   status |-> StatusFromValue(record.status),
   message |-> record.message,
   value |-> record.value,
   threshold |-> record.threshold,
   timestamp |-> record.timestamp,
   tzinfo |-> Naive,
   data |-> NoData]

\* The orders in which the database may give rows of equal timestamp.  SQL
\* leaves the order open; the engine produces it from the rows alone, so that
\* it is the same in every query of one database.
TieOrders == {"asc", "desc"}

\* ORDER BY timestamp DESC: the rows with non-increasing timestamps, rows of
\* equal timestamp by id in the database's order
RECURSIVE OrderByTimestampDesc(_, _)
OrderByTimestampDesc(rows, ties) ==
  IF rows = {} THEN << >>
  ELSE LET newest == {x \in rows : \A y \in rows : x.timestamp >= y.timestamp}
           r == CHOOSE x \in newest :
                  \A y \in newest : IF ties = "asc" THEN x.id <= y.id ELSE x.id >= y.id
       IN  << r >> \o OrderByTimestampDesc(rows \ {r}, ties)

\* timedelta(days=days) in clock ticks
Timedelta(days) == days * DayTicks

\* (mutant) > in place of >= in the cutoff filter
HistoryQueryStrict(table, client_id, days, at) ==
  {r \in table : r.client_id = client_id /\ r.timestamp > at - Timedelta(days)}

\* (mutant) no filter on the client
HistoryQueryAnyClient(table, client_id, days, at) ==
  {r \in table : r.timestamp >= at - Timedelta(days)}

\* The rows the get_history query selects
HistoryQuery(table, client_id, days, at) ==
  {r \in table : r.client_id = client_id /\ r.timestamp >= at - Timedelta(days)}

CountStatus(rs, st) == Cardinality({i \in 1..Len(rs) : rs[i].status = st})

\* recent_results[-1].timestamp if recent_results else None
LastCheckTime(recent_results) ==
  IF recent_results # << >>
  THEN Some(recent_results[Len(recent_results)].timestamp)
  ELSE None

\* (mutant) the warnings count filters on CRITICAL
HealthSummaryMiscount(recent_results) ==
  [total_checks |-> Len(recent_results),
   healthy |-> CountStatus(recent_results, "HEALTHY"),
   warnings |-> CountStatus(recent_results, "CRITICAL"),
   critical |-> CountStatus(recent_results, "CRITICAL"),
   unknown |-> CountStatus(recent_results, "UNKNOWN"),
   last_check_time |-> LastCheckTime(recent_results)]

\* HealthSummary(...) as built by get_status_summary
HealthSummary(recent_results) ==
  [total_checks |-> Len(recent_results),
   healthy |-> CountStatus(recent_results, "HEALTHY"),
   warnings |-> CountStatus(recent_results, "WARNING"),
   critical |-> CountStatus(recent_results, "CRITICAL"),
   unknown |-> CountStatus(recent_results, "UNKNOWN"),
   last_check_time |-> LastCheckTime(recent_results)]

\* ------------------------------------------------------------- the state
Procs == {"p1", "p2"}

VARIABLES
  now,            \* the clock, datetime.now(timezone.utc)
  config,         \* health_checks.thresholds of the Config
  devices,        \* the devices table
  clients,        \* the rows of the clients table
  tie_order,      \* the database's order for rows of equal timestamp
  configure_log,  \* the configure calls logged so far
  health_checks,  \* the committed rows of the health_checks table
  writer,         \* the connection holding the database write lock, if any
  ncalls,         \* run_checks calls started so far
  pc,             \* where each caller is in run_checks
  arg,            \* the arguments of the call in progress (and, for the
                  \* record, its number and the time it started)
  check_types,    \* the normalized check types of the call
  results,        \* the results computed so far
  tx,             \* rows inserted by the caller's open transaction
  error,          \* the exception run_checks raised
  ret,            \* the value run_checks returned
  reads,          \* metrics / device queries made by the call
  pre,            \* the committed table when the call started
  history,        \* the last get_history call and its return value
  summary,        \* the last get_status_summary call and its return value
  reply           \* the last configure / validate / device / client call and
                  \* its outcome

vars == << now, config, devices, clients, tie_order, configure_log, health_checks,
           writer, ncalls, pc, arg, check_types, results, tx, error, ret, reads,
           pre, history, summary, reply >>

callvars == << pc, arg, check_types, results, tx, error, ret, reads, pre >>
envvars == << now, config, devices, clients, tie_order, configure_log >>
readervars == << history, summary, reply >>

NoArg == [client_id |-> "", check_types |-> Omitted, batch |-> 0, started |-> 0]
NoHistory == [called |-> FALSE, client_id |-> "", days |-> 0, at |-> 0,
              records |-> << >>, result |-> << >>, prior |-> None]
NoSummary == [called |-> FALSE, client_id |-> "", at |-> 0,
              recent_results |-> << >>, result |-> HealthSummary(<< >>)]
NoReply == [called |-> FALSE, op |-> "", client_id |-> "", device_id |-> 0,
            tier |-> "", ok |-> FALSE, error |-> "", again |-> FALSE]

Range(f) == {f[i] : i \in DOMAIN f}

\* ------------------------------------------------------------ inputs
DefaultThresholds == [k \in ThresholdKeys |-> Unset]
CustomThresholds ==
  [k \in ThresholdKeys |->
     CASE k = "cpu_percent" -> Num(70)
       [] k = "memory_percent" -> Str(<< "8", "5" >>)
       [] OTHER -> Unset]
FastCpuThresholds ==
  [k \in ThresholdKeys |->
     IF k = "cpu_percent" THEN Str(<< "f", "a", "s", "t" >>) ELSE Unset]
NullDiskThresholds ==
  [k \in ThresholdKeys |->
     CASE k = "memory_percent" -> Str(<< "f", "a", "s", "t" >>)
       [] k = "disk_percent" -> Null
       [] OTHER -> Num(DefaultCpu)]

\* cpu_percent configured above 100
OutOfRangeThresholds ==
  [k \in ThresholdKeys |-> IF k = "cpu_percent" THEN Num(150) ELSE Unset]

MetricValues == {84, 85}
\* ClientTier, ClientStatus: the values of the enumerations
ClientTier == {"bronze", "silver", "gold", "premium"}
ClientStatus == {"active", "inactive", "suspended", "pending"}

\* A row of the clients table
ClientRecord(client_id, name, tier, status) ==
  [id |-> client_id, name |-> name, tier |-> tier, status |-> status]

\* The primary keys of the clients table
ClientIds(table) == {c.id : c \in table}

\* The rows of the clients table
RegisteredClients == {ClientRecord("acme", << "A" >>, "gold", "active")}
DeviceTables == { {}, {[id |-> 1, client_id |-> "acme"]} }

\* LocalRMMAdapter.get_devices: the client's device rows (by id)
RECURSIVE SetToSeq(_)
SetToSeq(S) ==
  IF S = {} THEN << >>
  ELSE LET m == Min(S) IN <<m>> \o SetToSeq(S \ {m})
\* (mutant) no filter on the client
get_devices_all(table, client_id) == SetToSeq({d.id : d \in table})
get_devices(table, client_id) ==
  SetToSeq({d.id : d \in {x \in table : x.client_id = client_id}})

\* ------------------------------------------------------------ run_checks
Raise(p, e) ==
  /\ pc' = [pc EXCEPT ![p] = "raised"]
  /\ error' = [error EXCEPT ![p] = e]

\* (mutant) the kinds are normalized before the client_id test
CheckInputKindsFirst(client_id, kinds) ==
  LET n == _normalize_check_types(kinds)
  IN  IF ~n.ok THEN n
      ELSE IF client_id = ""
      THEN [ok |-> FALSE, list |-> << >>, err |-> ValidationError("client_id", "")]
      ELSE n

\* The head of run_checks: the client_id test, then the normalization
CheckInput(client_id, kinds) ==
  IF client_id = ""
  THEN [ok |-> FALSE, list |-> << >>, err |-> ValidationError("client_id", "")]
  ELSE _normalize_check_types(kinds)

\* run_checks up to the loop: the client_id test and the normalization
RunChecks(p, client_id, kinds) ==
  /\ pc[p] = "idle"
  /\ ncalls < MaxCalls
  /\ ncalls' = ncalls + 1
  /\ arg' = [arg EXCEPT ![p] = [client_id |-> client_id, check_types |-> kinds,
                                batch |-> ncalls + 1, started |-> now]]
  /\ pre' = [pre EXCEPT ![p] = health_checks]
  /\ LET n == CheckInput(client_id, kinds)
     IN  IF ~n.ok
         THEN /\ Raise(p, n.err)
              /\ UNCHANGED check_types
         ELSE /\ pc' = [pc EXCEPT ![p] = "exec"]
              /\ check_types' = [check_types EXCEPT ![p] = n.list]
              /\ UNCHANGED error
  /\ UNCHANGED << envvars, health_checks, writer, results, tx, ret, reads, readervars >>

CurrentCheck(p) == check_types[p][Len(results[p]) + 1]
IsThresholdCheck(k) == k \in {"CPU", "MEMORY", "DISK"}
ReadsSource(k) == IsThresholdCheck(k) \/ k = "SERVICES"

\* _execute_check once the thresholds are coerced and the source has answered
CheckResultOf(client_id, k, th, usage, t) ==
  CASE k = "CPU" -> ThresholdResult(k, "CPU", usage, th.cpu, t)
    [] k = "MEMORY" -> ThresholdResult(k, "Memory", usage, th.memory, t)
    [] k = "DISK" -> ThresholdResult(k, "Disk", usage, th.disk, t)
    [] k = "SERVICES" -> ServicesResult(get_devices(devices, client_id), t)
    [] OTHER -> PassedResult(k, t)

\* One iteration of the loop of run_checks: _execute_check returns a result
ExecuteCheck(p, usage) ==
  /\ pc[p] = "exec"
  /\ Len(results[p]) < Len(check_types[p])
  /\ LET k == CurrentCheck(p)
         th == CoerceThresholds(config)
     IN  /\ th.ok
         /\ results' = [results EXCEPT ![p] =
              Append(@, CheckResultOf(arg[p].client_id, k, th, usage, now))]
         /\ reads' = [reads EXCEPT ![p] = IF ReadsSource(k) THEN @ + 1 ELSE @]
  /\ UNCHANGED << envvars, health_checks, writer, ncalls, pc, arg, check_types,
                  tx, error, ret, pre, readervars >>

\* The records of the results the loop has computed so far
ComputedRecords(p) ==
  LET top == Max({0} \cup {r.id : r \in health_checks})
  IN  {[HealthCheckRecord(arg[p].client_id, results[p][i], arg[p].batch)
          EXCEPT !.id = top + i] : i \in 1..Len(results[p])}

\* (mutant) the results computed before the exception are persisted
AfterCheckRaisesKeeps(table, computed) == table \cup computed

\* The committed table when an exception leaves the loop of run_checks:
\* _persist_results, which follows the loop, is not reached
AfterCheckRaises(table, computed) == table

\* One iteration of the loop: a threshold does not coerce, and the
\* ValidationError leaves run_checks
ThresholdRaises(p) ==
  /\ pc[p] = "exec"
  /\ Len(results[p]) < Len(check_types[p])
  /\ LET th == CoerceThresholds(config)
     IN  /\ ~th.ok
         /\ Raise(p, th.err)
  /\ health_checks' = AfterCheckRaises(health_checks, ComputedRecords(p))
  /\ UNCHANGED << envvars, writer, ncalls, arg, check_types,
                  results, tx, ret, reads, pre, readervars >>

\* One iteration of the loop: the metrics source or the device query raises;
\* nothing in _execute_check or run_checks catches it
SourceRaises(p) ==
  /\ pc[p] = "exec"
  /\ Len(results[p]) < Len(check_types[p])
  /\ CoerceThresholds(config).ok
  /\ ReadsSource(CurrentCheck(p))
  /\ reads' = [reads EXCEPT ![p] = @ + 1]
  /\ Raise(p, SourceError(HealthCheckType[CurrentCheck(p)]))
  /\ health_checks' = AfterCheckRaises(health_checks, ComputedRecords(p))
  /\ UNCHANGED << envvars, writer, ncalls, arg, check_types,
                  results, tx, ret, pre, readervars >>

\* _persist_results: the body of the with block (session.add of every record;
\* nothing reaches the database before the commit)
PersistResults(p) ==
  /\ pc[p] = "exec"
  /\ Len(results[p]) = Len(check_types[p])
  /\ pc' = [pc EXCEPT ![p] = "commit"]
  /\ UNCHANGED << envvars, health_checks, writer, ncalls, arg, check_types,
                  results, tx, error, ret, reads, pre, readervars >>

\* (mutant) session.add outside the loop: only the last record is added
SessionNewLast(rs) == IF rs = << >> THEN << >> ELSE << rs[Len(rs)] >>

\* The records the with block of _persist_results adds to the session
SessionNew(rs) == rs

\* (mutant) every INSERT commits on its own
AfterInsertAutocommit(table, row) == table \cup {row}

\* The committed table after an INSERT inside an open transaction
\* (sessionmaker(autocommit=False)): unchanged until the COMMIT
AfterInsert(table, row) == table

\* (mutant) the commit replaces the rows the table held for the client
AfterCommitReplaces(table, rows) ==
  {r \in table : \A x \in rows : x.client_id # r.client_id} \cup rows

\* The committed table after session.commit() succeeds
AfterCommit(table, rows) == table \cup rows

\* (mutant) the failure path commits what was inserted so far
AfterRollbackKeeps(table, rows) == table \cup rows

\* The committed table after session.rollback(): the transaction's rows are gone
AfterRollback(table, rows) == table

NextId(p) == 1 + Max({0} \cup {r.id : r \in health_checks} \cup {r.id : r \in Range(tx[p])})

\* The record session.add was given for the i-th result
PendingRecord(p, i) ==
  HealthCheckRecord(arg[p].client_id, SessionNew(results[p])[i], arg[p].batch)

\* session.commit(), the flush: the INSERT of the next pending record inside
\* the transaction (the first one takes the write lock)
FlushRow(p) ==
  /\ pc[p] = "commit"
  /\ Len(tx[p]) < Len(SessionNew(results[p]))
  /\ writer \in {"", p}
  /\ writer' = p
  /\ LET row == [PendingRecord(p, Len(tx[p]) + 1) EXCEPT !.id = NextId(p)]
     IN  /\ tx' = [tx EXCEPT ![p] = Append(@, row)]
         /\ health_checks' = AfterInsert(health_checks, row)
  /\ UNCHANGED << envvars, ncalls, pc, arg, check_types,
                  results, error, ret, reads, pre, readervars >>

\* session.commit(), the COMMIT: the rows of the transaction become visible
\* together, and run_checks returns the results
Commit(p) ==
  /\ pc[p] = "commit"
  /\ Len(tx[p]) = Len(SessionNew(results[p]))
  /\ health_checks' = AfterCommit(health_checks, Range(tx[p]))
  /\ tx' = [tx EXCEPT ![p] = << >>]
  /\ writer' = IF writer = p THEN "" ELSE writer
  /\ pc' = [pc EXCEPT ![p] = "done"]
  /\ ret' = [ret EXCEPT ![p] = results[p]]
  /\ UNCHANGED << envvars, ncalls, arg, check_types, results, error, reads,
                  pre, readervars >>

\* session.commit() raises (a failed INSERT, a locked or failing database):
\* session_scope rolls back and re-raises.  A session that was given no
\* record has begun no transaction, and its commit sends nothing to fail.
CommitFails(p) ==
  /\ pc[p] = "commit"
  /\ SessionNew(results[p]) # << >>
  /\ health_checks' = AfterRollback(health_checks, Range(tx[p]))
  /\ tx' = [tx EXCEPT ![p] = << >>]
  /\ writer' = IF writer = p THEN "" ELSE writer
  /\ Raise(p, StorageError)
  /\ UNCHANGED << envvars, ncalls, arg, check_types, results,
                  ret, reads, pre, readervars >>

\* The caller takes the return value or the exception; the call is over
Return(p) ==
  /\ pc[p] \in {"done", "raised"}
  /\ pc' = [pc EXCEPT ![p] = "idle"]
  /\ arg' = [arg EXCEPT ![p] = NoArg]
  /\ check_types' = [check_types EXCEPT ![p] = << >>]
  /\ results' = [results EXCEPT ![p] = << >>]
  /\ error' = [error EXCEPT ![p] = NoError]
  /\ ret' = [ret EXCEPT ![p] = << >>]
  /\ reads' = [reads EXCEPT ![p] = 0]
  /\ pre' = [pre EXCEPT ![p] = {}]
  /\ UNCHANGED << envvars, health_checks, writer, ncalls, tx, readervars >>

\* ------------------------------------------------------------ the readers
\* (mutant) the query removes the rows it returned
AfterQueryConsumes(table, rows) == table \ rows

\* The committed table after the session of a query commits: the session
\* holds no change
AfterQuery(table, rows) == table

\* get_history: one query, then one CheckResult per row.  prior keeps, for
\* the record, the value of the preceding get_history call when this call
\* follows it directly.
GetHistory(client_id, days) ==
  /\ LET rows == OrderByTimestampDesc(
                     HistoryQuery(health_checks, client_id, days, now), tie_order)
     IN  /\ history' = [called |-> TRUE, client_id |-> client_id, days |-> days,
                         at |-> now, records |-> rows,
                         result |-> [i \in 1..Len(rows) |-> ToCheckResult(rows[i])],
                         prior |-> IF history.called THEN Some(history.result) ELSE None]
         /\ health_checks' = AfterQuery(health_checks, Range(rows))
  /\ UNCHANGED << envvars, writer, ncalls, callvars, summary, reply >>

\* get_status_summary: get_history(client_id, days=1), then the counts
GetStatusSummary(client_id) ==
  /\ LET rows == OrderByTimestampDesc(
                     HistoryQuery(health_checks, client_id, SummaryDays, now), tie_order)
         recent_results == [i \in 1..Len(rows) |-> ToCheckResult(rows[i])]
     IN  /\ summary' = [called |-> TRUE, client_id |-> client_id, at |-> now,
                         recent_results |-> recent_results,
                         result |-> HealthSummary(recent_results)]
         /\ health_checks' = AfterQuery(health_checks, Range(rows))
  /\ UNCHANGED << envvars, writer, ncalls, callvars, history, reply >>

\* ------------------------------------------------- configure, validate
\* A configure payload: thresholds for the client
LowCpuPayload == [k \in ThresholdKeys |-> IF k = "cpu_percent" THEN Num(50) ELSE Unset]
Payloads == {LowCpuPayload}

Replied(op, client_id, ok, err) ==
  [called |-> TRUE, op |-> op, client_id |-> client_id, device_id |-> 0,
   tier |-> "", ok |-> ok, error |-> err, again |-> FALSE]

\* (mutant) the payload's thresholds replace the configured ones
AfterConfigureOverrides(thresholds, client_id, check_config) ==
  [k \in ThresholdKeys |->
     IF check_config[k].tag # "unset" THEN check_config[k] ELSE thresholds[k]]

\* The thresholds after configure: it stores nothing
AfterConfigure(thresholds, client_id, check_config) == thresholds

\* HealthMonitor.configure: logs the call and returns True
Configure(client_id, check_config) ==
  /\ configure_log' = configure_log \cup {[client_id |-> client_id, config |-> check_config]}
  /\ config' = AfterConfigure(config, client_id, check_config)
  /\ reply' = Replied("configure", client_id, TRUE, "")
  /\ UNCHANGED << now, devices, clients, tie_order, health_checks, writer, ncalls,
                  callvars, history, summary >>

\* Thresholds(...): every field coerces to a float (a number, or a string of
\* digits) within [0, 100]; a missing field takes its default
ThresholdsValid(thresholds) ==
  \A k \in ThresholdKeys :
    \/ thresholds[k].tag = "unset"
    \/ /\ Float(thresholds[k]).ok
       /\ Float(thresholds[k]).val >= 0
       /\ Float(thresholds[k]).val <= 100

ThresholdsDump(thresholds) ==
  [k \in ThresholdKeys |->
     IF thresholds[k].tag = "unset"
     THEN Num(CASE k = "cpu_percent" -> DefaultCpu
                [] k = "memory_percent" -> DefaultMemory
                [] OTHER -> DefaultDisk)
     ELSE Num(Float(thresholds[k]).val)]

\* Config.validate (called by MSPToolkit.health_check): raises
\* ConfigurationError, or replaces the configuration by the validated one
ConfigValidate ==
  /\ IF ThresholdsValid(config)
     THEN /\ config' = ThresholdsDump(config)
          /\ reply' = Replied("validate", "", TRUE, "")
     ELSE /\ config' = config
          /\ reply' = Replied("validate", "", FALSE, "ConfigurationError")
  /\ UNCHANGED << now, devices, clients, tie_order, configure_log, health_checks,
                  writer, ncalls, callvars, history, summary >>

\* ------------------------------------------------------- device registry
\* The row add_device inserts: the database gives it the next id
DeviceRecord(table, client_id) ==
  [id |-> 1 + Max({0} \cup {d.id : d \in table}), client_id |-> client_id]

\* (mutant) the client is not looked up
AddDeviceOutcomeUnchecked(registry, table, client_id) ==
  [ok |-> TRUE, err |-> "", table |-> table \cup {DeviceRecord(table, client_id)}]

\* add_device: the client is looked up, then the row added
AddDeviceOutcome(registry, table, client_id) ==
  IF client_id \in ClientIds(registry)
  THEN [ok |-> TRUE, err |-> "", table |-> table \cup {DeviceRecord(table, client_id)}]
  ELSE [ok |-> FALSE, err |-> "ClientNotFoundError", table |-> table]

\* DeviceManager.add_device (the ids the database gives out stay within
\* MaxDevices)
AddDevice(client_id) ==
  /\ DeviceRecord(devices, client_id).id <= MaxDevices
  /\ LET out == AddDeviceOutcome(clients, devices, client_id)
     IN  /\ devices' = out.table
         /\ reply' = Replied("add_device", client_id, out.ok, out.err)
  /\ UNCHANGED << now, config, clients, tie_order, configure_log, health_checks,
                  writer, ncalls, callvars, history, summary >>

\* (mutant) the row stays in the table
AfterDeleteDeviceKeeps(table, device_id) == table

\* The devices table after session.delete(record) commits
AfterDeleteDevice(table, device_id) == {d \in table : d.id # device_id}

\* DeviceManager.delete_device.  again tells, for the record, that the call
\* directly follows a delete_device call for the same id.
DeleteDevice(device_id) ==
  /\ LET again == reply.called /\ reply.op = "delete_device"
                   /\ reply.device_id = device_id
     IN  IF \E d \in devices : d.id = device_id
         THEN /\ devices' = AfterDeleteDevice(devices, device_id)
              /\ reply' = [Replied("delete_device", "", TRUE, "")
                             EXCEPT !.device_id = device_id, !.again = again]
         ELSE /\ devices' = devices
              /\ reply' = [Replied("delete_device", "", FALSE, "DEVICE_NOT_FOUND")
                             EXCEPT !.device_id = device_id, !.again = again]
  /\ UNCHANGED << now, config, clients, tie_order, configure_log, health_checks,
                  writer, ncalls, callvars, history, summary >>

\* ------------------------------------------------------- client registry
\* The code of an exception of the toolkit
Code(e) ==
  CASE e = "ClientNotFoundError" -> "CLIENT_NOT_FOUND"
    [] e = "ClientAlreadyExistsError" -> "CLIENT_ALREADY_EXISTS"
    [] e = "ValidationError" -> "VALIDATION_ERROR"
    [] OTHER -> e

\* ClientManager._coerce_tier / _coerce_status: the value when it is one of
\* the enumeration, ValidationError otherwise
_coerce_tier(tier) ==
  IF tier \in ClientTier THEN [ok |-> TRUE, value |-> tier, err |-> ""]
  ELSE [ok |-> FALSE, value |-> "", err |-> "ValidationError"]
_coerce_status(status) ==
  IF status \in ClientStatus THEN [ok |-> TRUE, value |-> status, err |-> ""]
  ELSE [ok |-> FALSE, value |-> "", err |-> "ValidationError"]

\* Client.validate_name and the length constraint of the field: a name is a
\* sequence of characters (the backquote, the seventh forbidden character,
\* is written by its name)
ForbiddenChars == {"<", ">", "&", ";", "|", "backquote", "$"}
validate_name(name) ==
  Len(name) >= 1 /\ \A i \in 1..Len(name) : name[i] \notin ForbiddenChars

\* ClientManager._to_model: Client(...) validates the row (the ids of the
\* model match the id pattern)
_to_model(record) ==
  IF validate_name(record.name) /\ record.tier \in ClientTier
     /\ record.status \in ClientStatus
  THEN [ok |-> TRUE, err |-> ""]
  ELSE [ok |-> FALSE, err |-> "pydantic.ValidationError"]

\* The row of a client id (session.get)
SessionGet(table, client_id) == CHOOSE c \in table : c.id = client_id

\* (mutant) an existing row is replaced by the new one
CreateOutcomeUpsert(table, client_id, name, tier) ==
  LET t == _coerce_tier(tier)
      record == ClientRecord(client_id, name, t.value, "active")
  IN  IF ~t.ok THEN [ok |-> FALSE, err |-> t.err, table |-> table]
      ELSE IF ~_to_model(record).ok
      THEN [ok |-> FALSE, err |-> _to_model(record).err, table |-> table]
      ELSE [ok |-> TRUE, err |-> "",
            table |-> {c \in table : c.id # client_id} \cup {record}]

\* ClientManager.create: the tier is coerced, then the id is looked up, then
\* the row is added and flushed and the model built from it; an exception
\* rolls the session back
CreateOutcome(table, client_id, name, tier) ==
  LET t == _coerce_tier(tier)
      record == ClientRecord(client_id, name, t.value, "active")
  IN  IF ~t.ok THEN [ok |-> FALSE, err |-> t.err, table |-> table]
      ELSE IF client_id \in ClientIds(table)
      THEN [ok |-> FALSE, err |-> "ClientAlreadyExistsError", table |-> table]
      ELSE IF ~_to_model(record).ok
      THEN [ok |-> FALSE, err |-> _to_model(record).err, table |-> table]
      ELSE [ok |-> TRUE, err |-> "", table |-> table \cup {record}]

CreateClient(client_id, name, tier) ==
  /\ LET out == CreateOutcome(clients, client_id, name, tier)
     IN  /\ clients' = out.table
         /\ reply' = [Replied("create", client_id, out.ok, out.err) EXCEPT !.tier = tier]
  /\ UNCHANGED << now, config, devices, tie_order, configure_log, health_checks,
                  writer, ncalls, callvars, history, summary >>

\* (mutant) a missing row reads as an empty client
GetClientOutcomeLenient(table, client_id) == [ok |-> TRUE, err |-> ""]

\* ClientManager.get_client
GetClientOutcome(table, client_id) ==
  IF client_id \notin ClientIds(table)
  THEN [ok |-> FALSE, err |-> "ClientNotFoundError"]
  ELSE _to_model(SessionGet(table, client_id))

GetClient(client_id) ==
  /\ LET out == GetClientOutcome(clients, client_id)
     IN  reply' = Replied("get_client", client_id, out.ok, out.err)
  /\ UNCHANGED << envvars, health_checks, writer, ncalls, callvars, history, summary >>

\* ClientManager.onboard: get_client, then the report of the workflow
Onboard(client_id) ==
  /\ LET out == GetClientOutcome(clients, client_id)
     IN  reply' = Replied("onboard", client_id, out.ok, out.err)
  /\ UNCHANGED << envvars, health_checks, writer, ncalls, callvars, history, summary >>

\* The loop of update over the keyword arguments, in their order: keys
\* outside the allowed fields are skipped, tier and status are coerced
AllowedFields == {"name", "contact_email", "tier", "status", "metadata"}
RECURSIVE ApplyUpdates(_, _)
ApplyUpdates(record, updates) ==
  IF updates = << >> THEN [ok |-> TRUE, err |-> "", record |-> record]
  ELSE LET key == Head(updates).key
           value == Head(updates).value
       IN  IF key \notin AllowedFields THEN ApplyUpdates(record, Tail(updates))
           ELSE IF key = "tier"
           THEN IF _coerce_tier(value).ok
                THEN ApplyUpdates([record EXCEPT !.tier = value], Tail(updates))
                ELSE [ok |-> FALSE, err |-> _coerce_tier(value).err, record |-> record]
           ELSE IF key = "status"
           THEN IF _coerce_status(value).ok
                THEN ApplyUpdates([record EXCEPT !.status = value], Tail(updates))
                ELSE [ok |-> FALSE, err |-> _coerce_status(value).err, record |-> record]
           ELSE IF key = "name"
           THEN ApplyUpdates([record EXCEPT !.name = value], Tail(updates))
           ELSE ApplyUpdates(record, Tail(updates))

\* ClientManager.update: the row is looked up, the updates applied and the
\* model built from the row; an exception rolls the session back
UpdateOutcome(table, client_id, updates) ==
  IF client_id \notin ClientIds(table)
  THEN [ok |-> FALSE, err |-> "ClientNotFoundError", table |-> table]
  ELSE LET old == SessionGet(table, client_id)
           applied == ApplyUpdates(old, updates)
       IN  IF ~applied.ok THEN [ok |-> FALSE, err |-> applied.err, table |-> table]
           ELSE IF ~_to_model(applied.record).ok
           THEN [ok |-> FALSE, err |-> _to_model(applied.record).err, table |-> table]
           ELSE [ok |-> TRUE, err |-> "",
                 table |-> (table \ {old}) \cup {applied.record}]

UpdateClient(client_id, updates) ==
  /\ LET out == UpdateOutcome(clients, client_id, updates)
     IN  /\ clients' = out.table
         /\ reply' = Replied("update", client_id, out.ok, out.err)
  /\ UNCHANGED << now, config, devices, tie_order, configure_log, health_checks,
                  writer, ncalls, callvars, history, summary >>

\* (mutant) the rows of the client stay behind
CascadeNone(table, client_id) == table

\* The rows of a child table left when session.delete(record) commits: the
\* relationships devices and health_checks cascade the delete to the rows
\* of the client
Cascade(table, client_id) == {r \in table : r.client_id # client_id}

\* ClientManager.delete
DeleteClient(client_id) ==
  /\ IF client_id \in ClientIds(clients)
     THEN /\ clients' = {c \in clients : c.id # client_id}
          /\ devices' = Cascade(devices, client_id)
          /\ health_checks' = Cascade(health_checks, client_id)
          /\ reply' = Replied("delete", client_id, TRUE, "")
     ELSE /\ UNCHANGED << clients, devices, health_checks >>
          /\ reply' = Replied("delete", client_id, FALSE, "ClientNotFoundError")
  /\ UNCHANGED << now, config, tie_order, configure_log, writer, ncalls, callvars,
                  history, summary >>

\* The clock advances
Tick ==
  /\ now < MaxTime
  /\ now' = now + 1
  /\ UNCHANGED << config, devices, clients, tie_order, configure_log, health_checks,
                  writer, ncalls, callvars, readervars >>

\* ------------------------------------------------------ specifications
ListsOver(E) == UNION {[1..n -> E] : n \in 0..MaxKinds}
DaysArgs == {0, 1}

InitWith(configs, registries, tables) ==
  /\ now = 0
  /\ config \in configs
  /\ devices \in registries
  /\ clients = RegisteredClients
  /\ tie_order \in TieOrders
  /\ configure_log = {}
  /\ health_checks \in tables
  /\ writer = ""
  /\ ncalls = 0
  /\ pc = [p \in Procs |-> "idle"]
  /\ arg = [p \in Procs |-> NoArg]
  /\ check_types = [p \in Procs |-> << >>]
  /\ results = [p \in Procs |-> << >>]
  /\ tx = [p \in Procs |-> << >>]
  /\ error = [p \in Procs |-> NoError]
  /\ ret = [p \in Procs |-> << >>]
  /\ reads = [p \in Procs |-> 0]
  /\ pre = [p \in Procs |-> {}]
  /\ history = NoHistory
  /\ summary = NoSummary
  /\ reply = NoReply

\* No run_checks call is in progress
Quiet == \A p \in Procs : pc[p] \in {"idle", "done", "raised"}
\* A reader has returned and its caller has not yet taken the value
Reading == history.called \/ summary.called \/ reply.called

\* The caller of a reader takes the return value
ReaderReturn ==
  /\ Reading
  /\ history' = NoHistory
  /\ summary' = NoSummary
  /\ reply' = NoReply
  /\ UNCHANGED << envvars, health_checks, writer, ncalls, callvars >>

\* A reader's return value is a snapshot: its caller takes it (ReaderReturn)
\* before anything else moves, so that it is not carried through every later
\* state.

\* The caller of get_history calls it a second time with the same arguments,
\* before anything else happens
RepeatHistory == history.called /\ history.prior = None

\* --- Spec: one synchronous caller working on a history that grows over time.
HistoryClients == {"acme", "beta"}
HistoryValues == {85}
HistoryLists == {Given(<< Member("CPU"), Text("network") >>), Given(<< Text("network") >>)}

Init == InitWith({DefaultThresholds}, {{}}, {{}})

Next ==
  \/ \E c \in HistoryClients, k \in HistoryLists : ~Reading /\ RunChecks("p1", c, k)
  \/ \E usage \in HistoryValues : ~Reading /\ ExecuteCheck("p1", usage)
  \/ ~Reading /\ SourceRaises("p1")
  \/ ~Reading /\ PersistResults("p1")
  \/ ~Reading /\ FlushRow("p1")
  \/ ~Reading /\ Commit("p1")
  \/ ~Reading /\ CommitFails("p1")
  \/ ~Reading /\ Return("p1")
  \/ \E c \in HistoryClients, d \in DaysArgs : ~Reading /\ Quiet /\ GetHistory(c, d)
  \/ \E c \in HistoryClients : ~Reading /\ Quiet /\ GetStatusSummary(c)
  \/ ~Reading /\ Tick
  \/ ReaderReturn

Spec == Init /\ [][Next]_vars

\* --- SpecCall: one run_checks call, over every kind of input and
\* configuration, on a database that may hold rows of earlier runs.
CallClients == {"", "acme"}
CallKinds == {"CPU", "DISK", "SERVICES", "NETWORK"}
CallElements == {Member(n) : n \in CallKinds} \cup {Text("memory"), Text("bogus")}
CallLists == {Omitted} \cup {Given(l) : l \in ListsOver(CallElements)}
EarlierRows ==
  {[HealthCheckRecord("acme", ThresholdResult("CPU", "CPU", 85, 85, 0), 0) EXCEPT !.id = 1]}

InitCall ==
  InitWith({DefaultThresholds, CustomThresholds, FastCpuThresholds, NullDiskThresholds},
           DeviceTables, {{}, EarlierRows})

NextCall ==
  \/ \E c \in CallClients, k \in CallLists : ~Reading /\ ncalls = 0 /\ RunChecks("p1", c, k)
  \/ \E usage \in MetricValues : ~Reading /\ ExecuteCheck("p1", usage)
  \/ ~Reading /\ ThresholdRaises("p1")
  \/ ~Reading /\ SourceRaises("p1")
  \/ ~Reading /\ PersistResults("p1")
  \/ ~Reading /\ FlushRow("p1")
  \/ ~Reading /\ Commit("p1")
  \/ ~Reading /\ CommitFails("p1")
  \/ ~Reading /\ Return("p1")
  \/ \E c \in CallClients, d \in DaysArgs : ~Reading /\ Quiet /\ GetHistory(c, d)
  \/ ReaderReturn

SpecCall == InitCall /\ [][NextCall]_vars

\* --- SpecConc: two callers with run_checks calls in flight at the same
\* time, and a reader that queries at any moment.
InitConc == InitWith({DefaultThresholds}, {{}}, {{}})

NextConc ==
  \/ \E p \in Procs, c \in HistoryClients, k \in HistoryLists : ~Reading /\ RunChecks(p, c, k)
  \/ \E p \in Procs, usage \in HistoryValues : ~Reading /\ ExecuteCheck(p, usage)
  \/ \E p \in Procs : ~Reading /\ SourceRaises(p)
  \/ \E p \in Procs : ~Reading /\ PersistResults(p)
  \/ \E p \in Procs : ~Reading /\ FlushRow(p)
  \/ \E p \in Procs : ~Reading /\ Commit(p)
  \/ \E p \in Procs : ~Reading /\ CommitFails(p)
  \/ \E p \in Procs : ~Reading /\ Return(p)
  \/ \E c \in HistoryClients : ~Reading /\ GetHistory(c, SummaryDays)
  \/ ReaderReturn

SpecConc == InitConc /\ [][NextConc]_vars

\* --- SpecFresh: one run_checks call without kinds on an empty database,
\* the clock running, and the readers after it, get_history once or twice.
InitFresh == InitWith({DefaultThresholds}, {{}}, {{}})

NextFresh ==
  \/ ~Reading /\ ncalls = 0 /\ RunChecks("p1", "acme", Omitted)
  \/ \E usage \in HistoryValues : ~Reading /\ ExecuteCheck("p1", usage)
  \/ ~Reading /\ PersistResults("p1")
  \/ ~Reading /\ FlushRow("p1")
  \/ ~Reading /\ Commit("p1")
  \/ ~Reading /\ CommitFails("p1")
  \/ ~Reading /\ Return("p1")
  \/ \E d \in DaysArgs : ~Reading /\ Quiet /\ GetHistory("acme", d)
  \/ RepeatHistory /\ GetHistory(history.client_id, history.days)
  \/ ~Reading /\ Quiet /\ GetStatusSummary("acme")
  \/ ~Reading /\ Tick
  \/ ReaderReturn

SpecFresh == InitFresh /\ [][NextFresh]_vars

\* --- SpecOps: one run_checks call among configure and validate calls and
\* changes of the device registry, on a database holding rows of both clients.
OpsLists ==
  {Given(<< Member("SERVICES") >>), Given(<< Member("CPU"), Member("SERVICES") >>)}
OpsRows ==
  { [HealthCheckRecord("acme", ThresholdResult("CPU", "CPU", 85, 85, 0), 0) EXCEPT !.id = 1],
    [HealthCheckRecord("beta", PassedResult("NETWORK", 0), 0) EXCEPT !.id = 2] }

InitOps == InitWith({DefaultThresholds, OutOfRangeThresholds}, {{}}, {OpsRows})

NextOps ==
  \/ \E c \in HistoryClients, k \in OpsLists : ~Reading /\ ncalls = 0 /\ RunChecks("p1", c, k)
  \/ \E usage \in MetricValues : ~Reading /\ ExecuteCheck("p1", usage)
  \/ ~Reading /\ PersistResults("p1")
  \/ ~Reading /\ FlushRow("p1")
  \/ ~Reading /\ Commit("p1")
  \/ ~Reading /\ CommitFails("p1")
  \/ ~Reading /\ Return("p1")
  \/ \E c \in HistoryClients : ~Reading /\ Quiet /\ GetHistory(c, SummaryDays)
  \/ \E c \in HistoryClients : ~Reading /\ Quiet /\ GetStatusSummary(c)
  \/ \E c \in HistoryClients, x \in Payloads : ~Reading /\ Quiet /\ Configure(c, x)
  \/ ~Reading /\ Quiet /\ ConfigValidate
  \/ \E c \in HistoryClients : ~Reading /\ AddDevice(c)
  \/ \E d \in 1..MaxDevices : ~Reading /\ DeleteDevice(d)
  \/ ReaderReturn

SpecOps == InitOps /\ [][NextOps]_vars

\* --- SpecReg: the client registry (create, get_client, update, delete,
\* onboard) and the device registry, with one services check and the readers,
\* on a database holding one client and health records of two.
CreateNames == { << "A" >>, << "A", "&" >> }
TierInputs == {"gold", "platinum"}
UpdateInputs ==
  { << [key |-> "name", value |-> << "B" >>] >>,
    << [key |-> "name", value |-> << "B", "|" >>] >>,
    << [key |-> "name", value |-> << "B" >>], [key |-> "tier", value |-> "platinum"] >>,
    << [key |-> "id", value |-> "beta"] >> }
RegLists == {Given(<< Member("SERVICES") >>)}

\* No run_checks call has been started and not yet taken by its caller
Idle == \A p \in Procs : pc[p] = "idle"

\* The caller of delete_device calls it again with the same id, before
\* anything else happens
RepeatDelete == reply.called /\ reply.op = "delete_device" /\ ~reply.again

InitReg == InitWith({DefaultThresholds}, {{}}, {OpsRows}) /\ tie_order = "asc"

NextReg ==
  \/ \E c \in HistoryClients, n \in CreateNames, t \in TierInputs :
       ~Reading /\ Idle /\ CreateClient(c, n, t)
  \/ \E c \in HistoryClients : ~Reading /\ Idle /\ GetClient(c)
  \/ \E c \in HistoryClients, u \in UpdateInputs : ~Reading /\ Idle /\ UpdateClient(c, u)
  \/ \E c \in HistoryClients : ~Reading /\ Idle /\ DeleteClient(c)
  \/ \E c \in HistoryClients : ~Reading /\ Idle /\ Onboard(c)
  \/ \E c \in HistoryClients : ~Reading /\ Idle /\ AddDevice(c)
  \/ \E d \in 1..MaxDevices : ~Reading /\ Idle /\ DeleteDevice(d)
  \/ RepeatDelete /\ DeleteDevice(reply.device_id)
  \/ \E k \in RegLists : ~Reading /\ ncalls = 0 /\ RunChecks("p1", "acme", k)
  \/ \E usage \in HistoryValues : ~Reading /\ ExecuteCheck("p1", usage)
  \/ ~Reading /\ PersistResults("p1")
  \/ ~Reading /\ FlushRow("p1")
  \/ ~Reading /\ Commit("p1")
  \/ ~Reading /\ CommitFails("p1")
  \/ ~Reading /\ Return("p1")
  \/ \E c \in HistoryClients, d \in DaysArgs : ~Reading /\ Idle /\ GetHistory(c, d)
  \/ \E c \in HistoryClients : ~Reading /\ Idle /\ GetStatusSummary(c)
  \/ ReaderReturn

SpecReg == InitReg /\ [][NextReg]_vars

\* ================================================================ claims
BatchRows(rows, b) == {r \in rows : r.batch = b}
\* The row holds the result as get_history gives it back (data aside)
RowMatches(r, client_id, result) ==
  /\ r.client_id = client_id
  /\ ToCheckResult(r) = [result EXCEPT !.data = NoData, !.tzinfo = Naive]

\* C1: a get_history reader running while a run_checks call for the same
\* client is in progress sees none of that call's results or all of them,
\* wherever in the call the query falls.
C1_ReaderSeesNoPartialBatch ==
  history.called =>
    \A p \in Procs :
      (pc[p] # "idle" /\ arg[p].client_id = history.client_id) =>
        Cardinality({i \in 1..Len(history.records) :
                       history.records[i].batch = arg[p].batch})
          \in {0, Len(check_types[p])}

\* The reader queried while a call for its client had inserted a part of its
\* batch and not yet committed.
C1_Witness ==
  /\ history.called
  /\ \E p \in Procs :
       /\ pc[p] = "commit"
       /\ arg[p].client_id = history.client_id
       /\ Len(tx[p]) > 0
       /\ Len(tx[p]) < Len(results[p])

\* C2: when the append of the batch fails, run_checks ends with the storage
\* error, returns nothing, and the store holds no row of the call and every
\* row it held before the call; no reader sees a row of the call.
C2_FailedAppendLeavesStore ==
  \A p \in Procs :
    (pc[p] = "raised" /\ error[p] = StorageError) =>
      /\ BatchRows(health_checks, arg[p].batch) = {}
      /\ pre[p] \subseteq health_checks
      /\ tx[p] = << >>
      /\ ret[p] = << >>
      /\ history.called => BatchRows(Range(history.records), arg[p].batch) = {}

\* A call with two results failed in its commit while the store held the
\* rows of another call, and a reader then queried its client.
C2_Witness ==
  \E p \in Procs :
    /\ pc[p] = "raised"
    /\ error[p] = StorageError
    /\ Len(results[p]) = 2
    /\ health_checks # {}
    /\ history.called
    /\ history.client_id = arg[p].client_id

\* C3: with two run_checks calls in flight, the rows of a call are in the
\* store all together or not at all, and once a call has returned the store
\* holds exactly one row per returned result, in the order of the results.
C3_ConcurrentBatchesComplete ==
  \A p \in Procs :
    LET mine == BatchRows(health_checks, arg[p].batch)
        ids == SetToSeq({r.id : r \in mine})
    IN  /\ pc[p] # "idle" => Cardinality(mine) \in {0, Len(check_types[p])}
        /\ pc[p] = "done" =>
             /\ Len(ret[p]) = Len(check_types[p])
             /\ Cardinality(mine) = Len(ret[p])
             /\ \A i \in 1..Len(ret[p]) :
                  \E r \in mine : r.id = ids[i] /\ RowMatches(r, arg[p].client_id, ret[p][i])

\* Both callers have returned from calls that started before either had
\* committed, each with a batch of two.
C3_Witness ==
  /\ pc["p1"] = "done" /\ pc["p2"] = "done"
  /\ pre["p1"] = {} /\ pre["p2"] = {}
  /\ Len(ret["p1"]) = 2 /\ Len(ret["p2"]) = 2
  /\ arg["p1"].client_id = arg["p2"].client_id

\* C4: a check whose source raises becomes a result of status unknown and
\* the call goes on, so the failure of a source never leaves run_checks as
\* an exception: a call that has read a source ends returning one result
\* per requested kind.
C4_SourceFailureDegrades ==
  \A p \in Procs :
    (pc[p] \in {"done", "raised"} /\ reads[p] > 0 /\ error[p] # StorageError) =>
      /\ pc[p] = "done"
      /\ Len(ret[p]) = Len(check_types[p])

\* The result as the store gives it back (data is not stored, and the
\* timestamp is the same instant without its tzinfo)
Stored(r) == [r EXCEPT !.data = NoData, !.tzinfo = Naive]
Occurrences(rs, x) == Cardinality({i \in 1..Len(rs) : Stored(rs[i]) = x})

\* A get_history(c, days=1) that follows a successful run_checks for c within
\* a day of the start of the call
ReadAfterCall(p) ==
  /\ history.called
  /\ history.days = 1
  /\ pc[p] = "done"
  /\ history.client_id = arg[p].client_id
  /\ history.at - arg[p].started <= Timedelta(1)

C6_LastCheckTimeIsNewest ==
  summary.called =>
    LET window == HistoryQuery(health_checks, summary.client_id, 1, summary.at)
    IN  summary.result.last_check_time =
          IF window = {} THEN None ELSE Some(Max({r.timestamp : r \in window}))

\* C7: the summary's total is the number of the client's results of the last
\* day and the sum of its four counts.
C7_SummaryTotals ==
  summary.called =>
    LET r == summary.result
    IN  /\ r.total_checks = r.healthy + r.warnings + r.critical + r.unknown
        /\ r.total_checks =
             Cardinality(HistoryQuery(health_checks, summary.client_id, 1, summary.at))

\* A summary over a window that holds healthy and warning results and leaves
\* an older row of the client out.
C7_Witness ==
  /\ summary.called
  /\ summary.result.healthy > 0
  /\ summary.result.warnings > 0
  /\ \E r \in health_checks :
       r.client_id = summary.client_id /\ r.timestamp < summary.at - Timedelta(1)

\* The threshold the claim names for a kind: the configured number, or
\* 85 / 90 / 85 when none is configured
ClaimedThreshold(k) ==
  LET key == CASE k = "CPU" -> "cpu_percent" [] k = "MEMORY" -> "memory_percent"
               [] OTHER -> "disk_percent"
  IN  IF config[key].tag = "unset"
      THEN (CASE k = "CPU" -> 85 [] k = "MEMORY" -> 90 [] OTHER -> 85)
      ELSE Float(config[key]).val

\* C8: every cpu, memory or disk result of run_checks carries the configured
\* (or default) threshold and is healthy exactly when its value is below it;
\* a value equal to the threshold is a warning.
C8_ThresholdClassification ==
  \A p \in Procs : \A i \in 1..Len(results[p]) :
    LET r == results[p][i]
    IN  r.check_type \in {"CPU", "MEMORY", "DISK"} =>
          /\ r.value # None
          /\ r.threshold = Some(ClaimedThreshold(r.check_type))
          /\ r.status = "HEALTHY" <=> r.value[1] < r.threshold[1]
          /\ r.value = r.threshold => r.status = "WARNING"
          /\ r.status \in {"HEALTHY", "WARNING"}

\* A returned batch with a memory result at the threshold configured as the
\* string "85" (a warning) and a disk result below the default (healthy).
C8_Witness ==
  \E p \in Procs :
    /\ pc[p] = "done"
    /\ config = CustomThresholds
    /\ \E i, j \in 1..Len(ret[p]) :
         /\ ret[p][i].check_type = "MEMORY"
         /\ ret[p][i].value = Some(85) /\ ret[p][i].threshold = Some(85)
         /\ ret[p][i].status = "WARNING"
         /\ ret[p][j].check_type = "DISK"
         /\ ret[p][j].value = Some(84) /\ ret[p][j].status = "HEALTHY"

\* The positions of a list that hold a string naming no check kind
Unrecognized(items) ==
  {i \in 1..Len(items) :
     /\ ~items[i].isEnum
     /\ items[i].s \notin {"cpu", "memory", "disk", "services", "network", "custom"}}
BadKinds(p) == ~arg[p].check_types.none /\ Unrecognized(arg[p].check_types.items) # {}

\* C9: a run_checks call whose list holds an unrecognized string, at any
\* position, raises ValidationError (for a client id that is not empty: on
\* check_types, naming the string), executes no check, reads no source and
\* leaves the store as it was.
C9_UnrecognizedKindRejected ==
  \A p \in Procs :
    (pc[p] # "idle" /\ BadKinds(p)) =>
      LET items == arg[p].check_types.items
      IN  /\ pc[p] = "raised"
          /\ error[p].type = "ValidationError"
          /\ arg[p].client_id # "" =>
               /\ error[p].field = "check_types"
               /\ error[p].detail = items[Min(Unrecognized(items))].s
          /\ results[p] = << >> /\ ret[p] = << >>
          /\ reads[p] = 0
          /\ tx[p] = << >>
          /\ health_checks = pre[p]

\* The unrecognized string came second, after a valid kind, in a call for a
\* client whose history was not empty.
C9_Witness ==
  \E p \in Procs :
    /\ pc[p] = "raised"
    /\ arg[p].client_id = "acme"
    /\ arg[p].check_types = Given(<< Member("CPU"), Text("bogus") >>)
    /\ error[p] = ValidationError("check_types", "bogus")
    /\ health_checks = EarlierRows

\* The thresholds configured with a value that is no number
NonNumeric(raw) ==
  \/ raw.tag = "null"
  \/ raw.tag = "str" /\ \E i \in 1..Len(raw.str) : raw.str[i] \notin DOMAIN Digits
BadThresholdKeys == {k \in ThresholdKeys : NonNumeric(config[k])}
ValidCall(p) == arg[p].client_id # "" /\ ~BadKinds(p)

\* run_checks raised ValidationError on a non-numeric threshold's key, having
\* read no source, produced no result and written nothing
ThresholdRejected(p) ==
  /\ pc[p] = "raised"
  /\ error[p].type = "ValidationError"
  /\ \E k \in BadThresholdKeys : error[p].field = "health_checks.thresholds." \o k
  /\ reads[p] = 0
  /\ results[p] = << >> /\ ret[p] = << >>
  /\ tx[p] = << >>
  /\ health_checks = pre[p]

\* C10 as stated: with a non-numeric threshold configured, every run_checks
\* call (valid client id, valid kinds) ends in that ValidationError.
C10_Original ==
  \A p \in Procs :
    (BadThresholdKeys # {} /\ ValidCall(p) /\ pc[p] \in {"done", "raised"}) =>
      ThresholdRejected(p)

\* C10 amended: with a non-numeric threshold configured, every run_checks
\* call that requests at least one check ends in that ValidationError, and
\* at no point of the call is a source read, a result produced or a row
\* written.
C10_NonNumericThresholdRejected ==
  \A p \in Procs :
    (BadThresholdKeys # {} /\ ValidCall(p) /\ pc[p] # "idle") =>
      /\ reads[p] = 0 /\ results[p] = << >> /\ tx[p] = << >>
      /\ health_checks = pre[p]
      /\ (pc[p] \in {"done", "raised"}
            /\ (arg[p].check_types.none \/ arg[p].check_types.items # << >>))
         => ThresholdRejected(p)

\* With memory_percent and disk_percent both non-numeric, a call for two
\* kinds was rejected on memory_percent, the history not being empty.
C10_Witness ==
  \E p \in Procs :
    /\ config = NullDiskThresholds
    /\ pc[p] = "raised"
    /\ Len(arg[p].check_types.items) = 2
    /\ error[p].field = "health_checks.thresholds.memory_percent"
    /\ health_checks = EarlierRows

\* C11: a run_checks call with an empty client_id raises ValidationError on
\* client_id, whatever its list of kinds holds; no kind is normalized, no
\* check executed, no source read, and the store stays as it was.
C11_EmptyClientRejected ==
  \A p \in Procs :
    (pc[p] # "idle" /\ arg[p].client_id = "") =>
      /\ pc[p] = "raised"
      /\ error[p].type = "ValidationError" /\ error[p].field = "client_id"
      /\ check_types[p] = << >>
      /\ results[p] = << >> /\ ret[p] = << >>
      /\ reads[p] = 0
      /\ tx[p] = << >>
      /\ health_checks = pre[p]

\* The call had an empty client_id and a list holding an unrecognized
\* string, and the history was not empty.
C11_Witness ==
  \E p \in Procs :
    /\ pc[p] = "raised"
    /\ arg[p].client_id = ""
    /\ BadKinds(p)
    /\ health_checks = EarlierRows

\* The kind an element of the list asks for, as its string tag
ClaimedKind(x) == IF x.isEnum THEN HealthCheckType[x.s] ELSE x.s

\* C12: when run_checks returns for an explicit list of valid kinds, the
\* returned sequence has the length of the list and its i-th result the
\* i-th kind of the list (repeats included), and the store has gained
\* exactly one row per element, the i-th row written holding the i-th kind.
C12_OrderAndRepeatsKept ==
  \A p \in Procs :
    (pc[p] = "done" /\ ~arg[p].check_types.none) =>
      LET items == arg[p].check_types.items
          mine == BatchRows(health_checks, arg[p].batch)
          ids == SetToSeq({r.id : r \in mine})
      IN  /\ Len(ret[p]) = Len(items)
          /\ \A i \in 1..Len(items) :
               HealthCheckType[ret[p][i].check_type] = ClaimedKind(items[i])
          /\ Cardinality(mine) = Len(items)
          /\ Cardinality(health_checks \ pre[p]) = Len(items)
          /\ \A i \in 1..Len(items) :
               \E r \in mine : r.id = ids[i] /\ r.check_type = ClaimedKind(items[i])

\* The list asked for cpu twice; the two results differ in value and status
\* and both are in the store.
C12_Witness ==
  \E p \in Procs :
    /\ pc[p] = "done"
    /\ arg[p].check_types = Given(<< Member("CPU"), Member("CPU") >>)
    /\ ret[p][1].status # ret[p][2].status
    /\ Cardinality(BatchRows(health_checks, arg[p].batch)) = 2

\* C13: when run_checks returns for a call made without check kinds, it
\* returns five results, of the kinds cpu, memory, disk, services, network
\* in this order.
C13_DefaultKinds ==
  \A p \in Procs :
    (pc[p] = "done" /\ arg[p].check_types.none) =>
      /\ arg[p].client_id # ""
      /\ Len(ret[p]) = 5
      /\ [i \in 1..Len(ret[p]) |-> HealthCheckType[ret[p][i].check_type]]
           = << "cpu", "memory", "disk", "services", "network" >>

\* A call without kinds returned, for a client with a registered device.
C13_Witness ==
  \E p \in Procs :
    /\ pc[p] = "done"
    /\ arg[p].check_types.none
    /\ ret[p] # << >>
    /\ get_devices(devices, arg[p].client_id) # << >>

\* The persisted results get_history(c, days) is to return at instant at
InWindow(c, days, at) ==
  {r \in health_checks : r.client_id = c /\ r.timestamp >= at - days * DayTicks}

\* C14: get_history(c, days) returns the persisted results of client c with
\* timestamp >= now - days, each of them once and nothing else, every one
\* with the fields it was persisted with, in non-increasing timestamp order.
C14_HistoryIsTheWindow ==
  history.called =>
    LET want == InWindow(history.client_id, history.days, history.at)
    IN  /\ Len(history.result) = Cardinality(want)
        /\ Range(history.records) = want
        /\ \A i \in 1..Len(history.result) :
             LET x == history.result[i]
                 r == history.records[i]
             IN  /\ HealthCheckType[x.check_type] = r.check_type
                 /\ HealthCheckStatus[x.status] = r.status
                 /\ x.message = r.message /\ x.value = r.value
                 /\ x.threshold = r.threshold /\ x.timestamp = r.timestamp
        /\ \A i, j \in 1..Len(history.result) :
             i < j => history.result[i].timestamp >= history.result[j].timestamp

\* The read left out the results of the other client, one of them older
\* than the cutoff, and took in a result stamped exactly at the cutoff and a
\* newer one.
C14_Witness ==
  /\ history.called
  /\ \E r \in health_checks :
       r.client_id # history.client_id /\ r.timestamp < history.at - Timedelta(history.days)
  /\ \E i, j \in 1..Len(history.result) :
       /\ history.result[i].timestamp > history.result[j].timestamp
       /\ history.result[j].timestamp = history.at - Timedelta(history.days)

\* C15: get_history("acme", days=0) made right after a run_checks("acme")
\* without kinds on an empty history returns the five results of the call.
C15_FreshBatchAtDaysZero ==
  \A p \in Procs :
    ( /\ history.called /\ history.days = 0 /\ history.client_id = "acme"
      /\ pc[p] = "done" /\ arg[p].client_id = "acme" /\ arg[p].check_types.none
      /\ pre[p] = {} ) =>
      /\ Len(history.result) = 5
      /\ \A i \in 1..Len(ret[p]) :
           \E j \in 1..Len(history.result) : history.result[j] = Stored(ret[p][i])

\* A step in which get_history or get_status_summary returns
ReadStep ==
  \/ history'.called /\ history' # history
  \/ summary'.called /\ summary' # summary

\* C16: a get_history call that follows another with the same arguments at
\* the same instant, no run_checks between them, returns the same sequence;
\* and no get_history or get_status_summary step changes the store.
C16_ReadPathIdempotent ==
  /\ [](history.called /\ history.prior # None => history.result = history.prior[1])
  /\ [][ReadStep => health_checks' = health_checks]_vars

\* The second of two equal get_history calls returned, its result holding
\* two results of one timestamp.
C16_Witness ==
  /\ history.called
  /\ history.prior # None
  /\ \E i, j \in 1..Len(history.result) :
       i # j /\ history.result[i].timestamp = history.result[j].timestamp

\* A step in which the run_checks call of p commits and returns
Returns(p) == pc[p] = "commit" /\ pc'[p] = "done"

\* C17: every step of run_checks, get_history, get_status_summary and
\* configure keeps each persisted record as it is; the store changes only
\* when a run_checks call returns, by one new record per returned result,
\* all of them of the client of the call.
C17_StoreOnlyGrowsByTheBatch ==
  [][ /\ health_checks \subseteq health_checks'
      /\ \A r \in health_checks' \ health_checks :
           \E p \in Procs :
             Returns(p) /\ r.client_id = arg[p].client_id /\ r.batch = arg[p].batch
      /\ \A p \in Procs :
           Returns(p) => Cardinality(health_checks' \ health_checks) = Len(ret'[p])
    ]_vars

\* A call returned two results for one client after a configure call, the
\* store holding the earlier records of both clients.
C17_Witness ==
  \E p \in Procs :
    /\ pc[p] = "done"
    /\ Len(ret[p]) = 2
    /\ configure_log # {}
    /\ OpsRows \subseteq health_checks
    /\ Cardinality(health_checks) = Cardinality(OpsRows) + 2

\* The number of devices registered for a client
DeviceCount(c) == Cardinality({d \in devices : d.client_id = c})

\* A step in which the call of p produces a services result
ServicesStep(p) ==
  /\ Len(results'[p]) = Len(results[p]) + 1
  /\ results'[p][Len(results'[p])].check_type = "SERVICES"

\* C18: a services check gives healthy exactly when the client has a
\* registered device at the moment the check runs, else warning, with the
\* number of the client's devices in its message; for a client the registry
\* does not know that is warning with 0, and no error.
C18_ServicesFollowsRegistry ==
  [][ \A p \in Procs :
        ServicesStep(p) =>
          LET r == results'[p][Len(results'[p])]
              c == arg[p].client_id
          IN  /\ r.status = "HEALTHY" <=> DeviceCount(c) >= 1
              /\ r.status \in {"HEALTHY", "WARNING"}
              /\ r.message = [fmt |-> "devices", label |-> "", arg |-> DeviceCount(c)]
              /\ c \notin ClientIds(clients) => r.status = "WARNING" /\ r.message.arg = 0
              /\ pc'[p] = "exec" /\ error'[p] = NoError
    ]_vars

\* A services result was healthy on the one device left after two devices
\* were added and the first of them deleted.
C18_Witness ==
  \E p \in Procs : \E i \in 1..Len(results[p]) :
    /\ results[p][i].check_type = "SERVICES"
    /\ results[p][i].status = "HEALTHY"
    /\ results[p][i].data.devices = << 2 >>

\* C19: every threshold recorded in a cpu, memory or disk result of
\* run_checks lies within [0, 100].
C19_ThresholdsWithinRange ==
  \A p \in Procs : \A i \in 1..Len(results[p]) :
    results[p][i].threshold # None =>
      /\ results[p][i].threshold[1] >= 0
      /\ results[p][i].threshold[1] <= 100

\* A step in which configure returns
ConfigureStep == reply'.called /\ reply'.op = "configure" /\ ~reply.called

\* C20: configure returns True and leaves the store, the thresholds and the
\* device registry as they were; and whatever payloads configure was given,
\* run_checks classifies a cpu, memory or disk check against the threshold
\* of the configuration.
C20_ConfigureOnlyAcknowledges ==
  /\ [][ConfigureStep =>
          /\ reply'.ok
          /\ health_checks' = health_checks
          /\ config' = config
          /\ devices' = devices]_vars
  /\ [](\A p \in Procs : \A i \in 1..Len(results[p]) :
          LET r == results[p][i]
          IN  r.check_type \in {"CPU", "MEMORY", "DISK"} =>
                /\ r.threshold = Some(ClaimedThreshold(r.check_type))
                /\ r.status = "HEALTHY" <=> r.value[1] < ClaimedThreshold(r.check_type))

\* After configure was given a cpu threshold of 50 for the client, a cpu
\* check of the client at 84 was healthy against the default 85.
C20_Witness ==
  \E p \in Procs : \E i \in 1..Len(ret[p]) :
    /\ pc[p] = "done"
    /\ [client_id |-> arg[p].client_id, config |-> LowCpuPayload] \in configure_log
    /\ ret[p][i].check_type = "CPU"
    /\ ret[p][i].value = Some(84)
    /\ ret[p][i].threshold = Some(85)
    /\ ret[p][i].status = "HEALTHY"

\* C21: no result of run_checks has the status critical, whatever the
\* measured value and the threshold; and on a store written by run_checks
\* only, no record is critical and get_status_summary counts zero critical
\* results for every client.
C21_NeverCritical ==
  /\ \A p \in Procs :
       /\ \A i \in 1..Len(results[p]) : results[p][i].status # "CRITICAL"
       /\ \A i \in 1..Len(ret[p]) : ret[p][i].status # "CRITICAL"
       /\ \A i \in 1..Len(tx[p]) : tx[p][i].status # "critical"
  /\ \A r \in health_checks : r.status # "critical"
  /\ summary.called => summary.result.critical = 0

\* get_status_summary counted a warning, a usage at its threshold, on a
\* store that run_checks alone had written.
C21_Witness ==
  /\ summary.called
  /\ summary.result.warnings >= 1
  /\ summary.result.healthy >= 1
  /\ \E r \in health_checks :
       r.client_id = summary.client_id /\ r.value = r.threshold /\ r.value # None

ThresholdKinds == {"CPU", "MEMORY", "DISK"}
\* value and threshold of a result or a record are as its kind requires
ValuePairing(kind, value, threshold) ==
  IF kind \in ThresholdKinds
  THEN value # None /\ threshold # None
  ELSE value = None /\ threshold = None

\* C22: every result of run_checks and every record of the store has value
\* and threshold both present when its kind is cpu, memory or disk, and both
\* absent when it is services, network or custom.
C22_ValueAndThresholdPaired ==
  /\ \A p \in Procs :
       /\ \A i \in 1..Len(results[p]) :
            ValuePairing(results[p][i].check_type, results[p][i].value,
                         results[p][i].threshold)
       /\ \A i \in 1..Len(ret[p]) :
            ValuePairing(ret[p][i].check_type, ret[p][i].value, ret[p][i].threshold)
       /\ \A i \in 1..Len(tx[p]) :
            ValuePairing(TypeFromValue(tx[p][i].check_type), tx[p][i].value,
                         tx[p][i].threshold)
  /\ \A r \in health_checks :
       ValuePairing(TypeFromValue(r.check_type), r.value, r.threshold)

\* A call returned a disk result with both fields and a services result with
\* neither, and both are in the store.
C22_Witness ==
  \E p \in Procs :
    /\ pc[p] = "done"
    /\ \E i, j \in 1..Len(ret[p]) :
         /\ ret[p][i].check_type = "DISK" /\ ret[p][i].value # None
         /\ ret[p][i].threshold # None
         /\ ret[p][j].check_type = "SERVICES" /\ ret[p][j].value = None
         /\ ret[p][j].threshold = None
    /\ \E r, q \in health_checks :
         /\ r.batch = arg[p].batch /\ r.check_type = "disk" /\ r.value # None
         /\ q.batch = arg[p].batch /\ q.check_type = "services" /\ q.value = None

\* A check of the call raised: the exception left the loop of run_checks
CheckRaised(p) ==
  /\ pc[p] = "raised"
  /\ check_types[p] # << >>
  /\ error[p].type # StorageError.type

\* C27: when a check of a run_checks call raises, at whatever position of
\* the batch, run_checks raises that exception, returns nothing and persists
\* nothing of the call: the results computed before it are in no record and
\* the store is as it was when the call started.
C27_RaisingCheckPersistsNothing ==
  \A p \in Procs :
    CheckRaised(p) =>
      /\ error[p] # NoError
      /\ ret[p] = << >>
      /\ tx[p] = << >>
      /\ health_checks = pre[p]
      /\ BatchRows(health_checks, arg[p].batch) = {}

\* The second check of a call raised after the first had given its result,
\* on a store holding an earlier record.
C27_Witness ==
  \E p \in Procs :
    /\ CheckRaised(p)
    /\ error[p].type = "SourceError"
    /\ Len(results[p]) = 1
    /\ Len(check_types[p]) = 2
    /\ health_checks = EarlierRows

\* The first key, in the order of the coercions, whose threshold is no number
FirstBadKey ==
  IF "cpu_percent" \in BadThresholdKeys THEN "cpu_percent"
  ELSE IF "memory_percent" \in BadThresholdKeys THEN "memory_percent"
  ELSE "disk_percent"

\* C28: every executed check coerces the three thresholds, whatever its
\* kind: with a non-numeric threshold configured, a run_checks call that
\* requests any kind at all, the kind of that threshold or another, raises
\* ValidationError on the first such key, while a call with an empty list of
\* kinds raises nothing, returns the empty sequence and persists nothing.
C28_EveryCheckCoercesAllThresholds ==
  \A p \in Procs :
    (BadThresholdKeys # {} /\ ValidCall(p) /\ pc[p] \in {"done", "raised"}) =>
      IF arg[p].check_types = Given(<< >>)
      THEN /\ pc[p] = "done" /\ error[p] = NoError
           /\ ret[p] = << >>
           /\ health_checks = pre[p]
      ELSE /\ pc[p] = "raised"
           /\ error[p] = ValidationError("health_checks.thresholds." \o FirstBadKey,
                                          FirstBadKey)
           /\ health_checks = pre[p]

\* A call that requested the network check alone was rejected on the
\* non-numeric cpu_percent.
C28_Witness ==
  \E p \in Procs :
    /\ config = FastCpuThresholds
    /\ arg[p].check_types = Given(<< Member("NETWORK") >>)
    /\ pc[p] = "raised"
    /\ error[p].field = "health_checks.thresholds.cpu_percent"

\* A step in which the named operation of a registry returns or raises
OpStep(op) == reply'.called /\ reply'.op = op /\ reply' # reply

\* The tables of the database other than clients, and the configuration
StoreUnchanged ==
  UNCHANGED << clients, devices, health_checks, config >>

\* No two rows of the clients table have the same id
UniqueIds == \A c1, c2 \in clients : c1.id = c2.id => c1 = c2

\* C23 as stated: create for an id that exists raises
\* ClientAlreadyExistsError, whatever the other arguments, and leaves the
\* store as it was.
C23_Original ==
  [][ (OpStep("create") /\ reply'.client_id \in ClientIds(clients)) =>
        /\ ~reply'.ok
        /\ reply'.error = "ClientAlreadyExistsError"
        /\ StoreUnchanged
    ]_vars

\* C23 amended: create for an id that exists never succeeds and leaves the
\* client's row and the rest of the store as they were; it raises
\* ClientAlreadyExistsError (code CLIENT_ALREADY_EXISTS) when the tier is a
\* value of ClientTier and ValidationError when it is not; and the ids of
\* the clients table stay unique through every create, update and delete.
C23_DuplicateCreateRejected ==
  /\ []UniqueIds
  /\ [][ (OpStep("create") /\ reply'.client_id \in ClientIds(clients)) =>
           /\ ~reply'.ok
           /\ IF reply'.tier \in ClientTier
              THEN /\ reply'.error = "ClientAlreadyExistsError"
                   /\ Code(reply'.error) = "CLIENT_ALREADY_EXISTS"
              ELSE reply'.error = "ValidationError"
           /\ StoreUnchanged
       ]_vars

\* create with a valid tier was rejected for the id of a client that had
\* been renamed and has a device.
C23_Witness ==
  /\ reply.called /\ reply.op = "create"
  /\ reply.error = "ClientAlreadyExistsError"
  /\ reply.tier = "gold"
  /\ \E c \in clients : c.id = reply.client_id /\ c.name = << "B" >>
  /\ \E d \in devices : d.client_id = reply.client_id

\* C24: get_client, update, delete and onboard for an id that is not in
\* the clients table raise ClientNotFoundError (code CLIENT_NOT_FOUND) and
\* change nothing; a delete that returns True takes the id out of the
\* table, and an id enters the table by a successful create only, so that
\* get_client raises for a deleted id until it is created again.
C24_MissingClientRejected ==
  [][ /\ \A op \in {"get_client", "update", "delete", "onboard"} :
           (OpStep(op) /\ reply'.client_id \notin ClientIds(clients)) =>
             /\ ~reply'.ok
             /\ reply'.error = "ClientNotFoundError"
             /\ Code(reply'.error) = "CLIENT_NOT_FOUND"
             /\ StoreUnchanged
      /\ (OpStep("delete") /\ reply'.ok) =>
           reply'.client_id \notin ClientIds(clients')
      /\ \A c \in ClientIds(clients') \ ClientIds(clients) :
           OpStep("create") /\ reply'.ok /\ reply'.client_id = c
    ]_vars

\* get_client raised for the id of the client the database started with,
\* the other client being registered.
C24_Witness ==
  /\ reply.called /\ reply.op = "get_client"
  /\ reply.client_id = "acme"
  /\ reply.error = "ClientNotFoundError"
  /\ "beta" \in ClientIds(clients)

\* C25: add_device for a client that is not in the clients table raises
\* ClientNotFoundError and adds no device; every device that enters the
\* devices table does so by an add_device call for a client that is in the
\* clients table at that moment.
C25_DeviceNeedsClient ==
  [][ /\ (OpStep("add_device") /\ reply'.client_id \notin ClientIds(clients)) =>
           /\ ~reply'.ok
           /\ reply'.error = "ClientNotFoundError"
           /\ StoreUnchanged
      /\ \A d \in devices' \ devices :
           /\ OpStep("add_device") /\ reply'.ok
           /\ d.client_id = reply'.client_id
           /\ d.client_id \in ClientIds(clients)
    ]_vars

\* add_device raised for a client that had been deleted, while the other
\* client has a device.
C25_Witness ==
  /\ reply.called /\ reply.op = "add_device"
  /\ reply.error = "ClientNotFoundError"
  /\ reply.client_id = "acme"
  /\ \E d \in devices : d.client_id = "beta"

\* C26: delete_device returns True and removes the row when the id is in
\* the devices table, and raises MSPToolkitError with code DEVICE_NOT_FOUND
\* leaving the store as it was when it is not; a delete_device call that
\* directly follows a successful one for the same id fails.
C26_DeleteDevice ==
  [][ OpStep("delete_device") =>
        /\ IF \E d \in devices : d.id = reply'.device_id
           THEN /\ reply'.ok
                /\ devices' = {d \in devices : d.id # reply'.device_id}
                /\ UNCHANGED << clients, health_checks, config >>
           ELSE /\ ~reply'.ok
                /\ reply'.error = "DEVICE_NOT_FOUND"
                /\ StoreUnchanged
        /\ (reply'.again /\ reply.ok) => ~reply'.ok
    ]_vars

\* The second of two delete_device calls in a row failed, another device
\* being left in the table.
C26_Witness ==
  /\ reply.called /\ reply.op = "delete_device"
  /\ reply.again /\ ~reply.ok
  /\ reply.error = "DEVICE_NOT_FOUND"
  /\ devices # {}

\* What get_history returns on a table
HistoryOf(table, client_id, days, at) ==
  LET rows == OrderByTimestampDesc(HistoryQuery(table, client_id, days, at), tie_order)
  IN  [i \in 1..Len(rows) |-> ToCheckResult(rows[i])]

\* C29: a delete that returns True removes the client's row and with it the
\* health records and the devices of the client: directly afterwards
\* get_history for the client is empty for every days, get_status_summary
\* is all zeros and a services check finds no device, while the rows of
\* every other client are as they were.
C29_DeleteCascades ==
  [][ (OpStep("delete") /\ reply'.ok) =>
        LET c == reply'.client_id
        IN  /\ clients' = {x \in clients : x.id # c}
            /\ \A r \in health_checks' : r.client_id # c
            /\ \A d \in devices' : d.client_id # c
            /\ \A days \in DaysArgs : HistoryOf(health_checks', c, days, now') = << >>
            /\ HealthSummary(HistoryOf(health_checks', c, SummaryDays, now'))
                 = [total_checks |-> 0, healthy |-> 0, warnings |-> 0, critical |-> 0,
                    unknown |-> 0, last_check_time |-> None]
            /\ ServicesResult(get_devices(devices', c), now').message = DevicesMessage(0)
            /\ {r \in health_checks' : r.client_id # c}
                 = {r \in health_checks : r.client_id # c}
            /\ {d \in devices' : d.client_id # c} = {d \in devices : d.client_id # c}
    ]_vars

\* delete returned True for the client the database started with: its
\* health record is gone, and the other client keeps its record and a device.
C29_Witness ==
  /\ reply.called /\ reply.op = "delete" /\ reply.ok
  /\ reply.client_id = "acme"
  /\ \A r \in health_checks : r.client_id # "acme"
  /\ \E r \in health_checks : r.client_id = "beta"
  /\ \E d \in devices : d.client_id = "beta"

\* The position, in its batch, of the result a row was written for: the
\* rows of a batch take their ids in the order of the results
BatchIndex(r) ==
  Cardinality({x \in BatchRows(health_checks, r.batch) : x.id <= r.id})

\* C30: each result get_history returns for a record of a run_checks call
\* equals the result that call returned in check kind, status, message,
\* value, threshold and timestamp (the instant and its timezone), and its
\* data is empty, whatever data the original carried.
C30_RoundTrip ==
  history.called =>
    \A p \in Procs :
      pc[p] = "done" =>
        \A i \in 1..Len(history.result) :
          history.records[i].batch = arg[p].batch =>
            LET h == history.result[i]
                o == ret[p][BatchIndex(history.records[i])]
            IN  /\ h.check_type = o.check_type
                /\ h.status = o.status
                /\ h.message = o.message
                /\ h.value = o.value
                /\ h.threshold = o.threshold
                /\ h.timestamp = o.timestamp
                /\ h.tzinfo = o.tzinfo
                /\ h.data = NoData

\* What does hold of the round trip: the read result is the original with
\* its data emptied and the tzinfo of its timestamp dropped.
C30_RoundTripButTimezone ==
  history.called =>
    \A p \in Procs :
      pc[p] = "done" =>
        \A i \in 1..Len(history.result) :
          history.records[i].batch = arg[p].batch =>
            history.result[i] = Stored(ret[p][BatchIndex(history.records[i])])

====
